---- MODULE Spec2Model ----
(***************************************************************************)
(* FlightSeek: the great-circle path function of lib/utils.ts and the      *)
(* route selection / drawing effect of components/FlightMap.tsx, driven by *)
(* the filter and selection handlers of components/Sidebar.tsx and         *)
(* app/page.tsx, over the data files that scripts/process-data.js writes   *)
(* and scripts/update-routes.js rewrites.                                  *)
(*                                                                         *)
(* Numbers are whole degrees.  JavaScript arrays are sequences, null and   *)
(* undefined are the markers Null and Undefined.                           *)
(***************************************************************************)
EXTENDS Integers, Sequences, FiniteSets, TLC

VARIABLES
    dataFiles,        \* public/data: the parsed content of the JSON files
    lastScript,       \* the script that wrote public/data last
    scriptRuns,       \* number of script runs so far
    loading,          \* page.tsx: loading state
    airports,         \* page.tsx: airports state (array of Airport)
    airlines,         \* page.tsx: airlines state (array of Airline)
    routes,           \* page.tsx: routes state (array of Route)
    routesByAirport,  \* page.tsx: routesByAirport state (code -> Route[])
    aircraftTypes,    \* page.tsx: aircraftTypes state (array of string)
    selectedAirport,  \* page.tsx: selectedAirport state (Airport or Null)
    filters,          \* page.tsx: filters state
    filterObjects,    \* the filter objects the handlers have built
    filtersRef,       \* which of filterObjects the filters state refers to
    airportMapRef,    \* FlightMap.tsx: airportMap.current (code -> Airport)
    routesToShow,     \* FlightMap.tsx: routesToShow of the last drawing pass
    routesLayer,      \* FlightMap.tsx: content of routesLayerRef
    renderError,      \* TRUE once the drawing effect has thrown
    fpSign,           \* sign atan2 gives a sample lying on the antimeridian
    arcStart,         \* getArcPoints: argument start
    arcEnd,           \* getArcPoints: argument end
    arcSteps,         \* getArcPoints: argument numPoints
    arcPoints         \* getArcPoints: returned array

vars == <<dataFiles, lastScript, scriptRuns, loading, airports, airlines, routes,
          routesByAirport, aircraftTypes, selectedAirport, filters,
          filterObjects, filtersRef, airportMapRef, routesToShow, routesLayer,
          renderError, fpSign, arcStart, arcEnd, arcSteps, arcPoints>>

fileVars == <<dataFiles, lastScript, scriptRuns>>
dataVars == <<airports, routes, routesByAirport, aircraftTypes, airportMapRef,
              fpSign>>
heapVars == <<filterObjects, filtersRef>>
arcVars == <<arcStart, arcEnd, arcSteps, arcPoints>>
uiVars == <<selectedAirport, filters, routesToShow, routesLayer, renderError>>
backVars == <<fileVars, loading, heapVars, arcVars>>

-----------------------------------------------------------------------------
(* Bounds *)

\* largest number of pool routes in a loaded route collection
MaxRoutes == 2

\* largest numPoints handed to getArcPoints on its own
MaxSteps == 3

\* largest number of rows in routes.dat
MaxRawRows == 2

\* largest number of script runs in a row
MaxScriptRuns == 2
\* operators of the route whose tooltip is rendered
MaxOperators == 4

-----------------------------------------------------------------------------
(* Program constants *)

FullTurn == 360
HalfTurn == 180
RouteArcSteps == 30
HueWeight0 == 137
HueWeight1 == 59

Null == [isNull |-> TRUE]
Undefined == "undefined"
FallbackAirline == "XX"

-----------------------------------------------------------------------------
(* JavaScript array methods *)

\* Array.prototype.includes
Includes(arr, x) == \E i \in 1..Len(arr) : arr[i] = x

\* the values held by an array
Elems(arr) == { arr[i] : i \in 1..Len(arr) }

\* Array.prototype.some, passing being the values the callback accepts
Some(arr, passing) == \E i \in 1..Len(arr) : arr[i] \in passing

\* Array.prototype.filter: a new array, the passing elements in order
Filter(arr, passing) ==
    LET kept[i \in 0..Len(arr)] ==
            IF i = 0 THEN <<>>
            ELSE IF arr[i] \in passing THEN Append(kept[i - 1], arr[i])
            ELSE kept[i - 1]
    IN kept[Len(arr)]

\* Array.prototype.find: the first element passing, else undefined
Find(arr, passing) ==
    LET hits == { i \in 1..Len(arr) : arr[i] \in passing }
    IN IF hits = {} THEN Undefined
       ELSE arr[CHOOSE i \in hits : \A j \in hits : i <= j]

\* arr[0], undefined on an empty array
First(arr) == IF Len(arr) > 0 THEN arr[1] ELSE Undefined

\* a || b on strings: undefined and "" are falsy
OrElse(a, b) == IF a = Undefined \/ a = "" THEN b ELSE a

-----------------------------------------------------------------------------
(* getArcPoints (lib/utils.ts)                                             *)
(*                                                                         *)
(* A point is <<lat, lon>>.  The interpolation is carried out exactly for  *)
(* the pairs on which the formula of lines 59-83 reduces to integer        *)
(* arithmetic: coincident points, two points on one meridian, and two      *)
(* points on the equator that are not antipodal.  Sample i of n is rounded *)
(* down to a whole degree.                                                 *)

\* (Math.atan2(y, x) * 180) / Math.PI for the direction of longitude lon:
\* a value in [-180, 180]; a direction lying on the antimeridian has y of
\* magnitude zero, and comes out as 180 or -180 with the sign rounding
\* leaves on y
AtanLon(lon, sign) ==
    LET w == ((lon + HalfTurn) % FullTurn) - HalfTurn
    IN IF w = -HalfTurn THEN sign ELSE w

\* d === 0: the haversine sum is zero only for identical coordinates
CentralAngleIsZero(start, end) == start[1] = end[1] /\ start[2] = end[2]

OnOneMeridian(start, end) == start[2] = end[2]

OnEquator(start, end) ==
    /\ start[1] = 0
    /\ end[1] = 0
    /\ (end[2] - start[2]) % FullTurn # HalfTurn

\* the pairs of coordinates the interpolation is defined on
Interpolable(start, end) ==
    \/ CentralAngleIsZero(start, end)
    \/ OnOneMeridian(start, end)
    \/ OnEquator(start, end)

\* longitude swept by the minor arc from lon1 to lon2, in (-180, 180)
MinorArcSweep(lon1, lon2) ==
    ((lon2 - lon1 + HalfTurn) % FullTurn) - HalfTurn

\* the body of the loop of lines 56-84 for one i
InterpolatePoint_SwappedStart(start, end, i, numPoints, sign) ==
    IF CentralAngleIsZero(start, end) THEN <<start[2], start[1]>>
    ELSE CASE OnOneMeridian(start, end) ->
                <<start[1] + ((i * (end[1] - start[1])) \div numPoints),
                  AtanLon(start[2], sign)>>
           [] OnEquator(start, end) ->
                <<0,
                  AtanLon(start[2]
                            + ((i * MinorArcSweep(start[2], end[2]))
                                  \div numPoints),
                          sign)>>
InterpolatePoint(start, end, i, numPoints, sign) ==
    IF CentralAngleIsZero(start, end) THEN <<start[1], start[2]>>
    ELSE CASE OnOneMeridian(start, end) ->
                <<start[1] + ((i * (end[1] - start[1])) \div numPoints),
                  AtanLon(start[2], sign)>>
           [] OnEquator(start, end) ->
                <<0,
                  AtanLon(start[2]
                            + ((i * MinorArcSweep(start[2], end[2]))
                                  \div numPoints),
                          sign)>>

\* variant: the loop stops at i < numPoints
InterpolatePoints_DropLast(start, end, numPoints, sign) ==
    [k \in 1..numPoints |->
        InterpolatePoint(start, end, k - 1, numPoints, sign)]

\* for (let i = 0; i <= numPoints; i++) points.push(...)
InterpolatePoints(start, end, numPoints, sign) ==
    [k \in 1..(numPoints + 1) |->
        InterpolatePoint(start, end, k - 1, numPoints, sign)]

\* while (currLon - prevLon > 180) currLon -= 360
RECURSIVE SubtractTurns(_, _)
SubtractTurns(currLon, prevLon) ==
    IF currLon - prevLon > HalfTurn
    THEN SubtractTurns(currLon - FullTurn, prevLon)
    ELSE currLon

\* while (currLon - prevLon < -180) currLon += 360
RECURSIVE AddTurns(_, _)
AddTurns(currLon, prevLon) ==
    IF currLon - prevLon < -HalfTurn
    THEN AddTurns(currLon + FullTurn, prevLon)
    ELSE currLon

\* the loop of lines 87-95 from index i on: points[i][1] is rewritten in
\* place, so prevLon is the longitude already unwrapped
RECURSIVE UnwrapFrom(_, _)
UnwrapFrom(points, i) ==
    IF i > Len(points) THEN points
    ELSE LET prevLon == points[i - 1][2]
             currLon == points[i][2]
         IN UnwrapFrom(
                [points EXCEPT
                    ![i] = <<points[i][1],
                             AddTurns(SubtractTurns(currLon, prevLon),
                                      prevLon)>>],
                i + 1)

\* variant: prevLon is read from the longitudes as interpolated
UnwrapLongitudes_RawPrev(points) ==
    [i \in 1..Len(points) |->
        IF i = 1 THEN points[1]
        ELSE <<points[i][1],
               AddTurns(SubtractTurns(points[i][2], points[i - 1][2]),
                        points[i - 1][2])>>]

\* for (let i = 1; i < points.length; i++)
UnwrapLongitudes_FromSecond(points) == Tail(UnwrapFrom(points, 2))
UnwrapLongitudes(points) == UnwrapFrom(points, 2)

getArcPoints(start, end, numPoints, sign) ==
    UnwrapLongitudes(InterpolatePoints(start, end, numPoints, sign))

-----------------------------------------------------------------------------
(* The loaded dataset (public/data/*.json as written by the scripts)       *)

\* airports.json: three airports on the equator, two of them on either
\* side of the antimeridian
AirportList ==
    << [iata |-> "TRW", lat |-> 0, lon |-> 173],
       [iata |-> "CXI", lat |-> 0, lon |-> -157],
       [iata |-> "NBO", lat |-> 0, lon |-> 37] >>

\* airlines.json, in the row order of airlines.dat
AirlineList ==
    << [iata |-> "AA", name |-> "American Airlines"],
       [iata |-> "DL", name |-> "Delta Air Lines"],
       [iata |-> "BA", name |-> "British Airways"] >>

\* the airline names in use, in collation order
NameOrder == <<"American Airlines", "British Airways", "Delta Air Lines">>

\* String.prototype.localeCompare on these names: negative, zero, positive
localeCompare(a, b) ==
    LET at(name) == CHOOSE k \in 1..Len(NameOrder) : NameOrder[k] = name
    IN at(a) - at(b)

\* Array.prototype.sort((a, b) => a.name.localeCompare(b.name)): the sort
\* is stable and works on the array it is given
SortByName(arr) ==
    LET insert(sorted, a) ==
            LET later == { k \in 1..Len(sorted) :
                             localeCompare(sorted[k].name, a.name) > 0 }
                at == IF later = {} THEN Len(sorted) + 1
                      ELSE CHOOSE k \in later : \A j \in later : k <= j
            IN SubSeq(sorted, 1, at - 1) \o <<a>>
                 \o SubSeq(sorted, at, Len(sorted))
        sorted[i \in 0..Len(arr)] ==
            IF i = 0 THEN <<>> ELSE insert(sorted[i - 1], arr[i])
    IN sorted[Len(arr)]

\* aircraft-types.json
AircraftTypeList == <<"777", "A380">>

\* String.prototype.charCodeAt data of the airline codes in use
CodeUnits ==
    [code \in {"AA", "BA", "DL", "QF", "XX"} |->
        CASE code = "AA" -> <<65, 65>>
          [] code = "BA" -> <<66, 65>>
          [] code = "DL" -> <<68, 76>>
          [] code = "QF" -> <<81, 70>>
          [] code = "XX" -> <<88, 88>>]

\* routes the route collection is drawn from: a route with two operators,
\* one whose selected airline may be operator or codeshare, codeshare-only
\* routes (operators stays empty, process-data.js lines 137-158; equipment
\* is taken from operators only), and a route to a code airports.json
\* does not have
RoutePool ==
    << [origin |-> "TRW", destination |-> "CXI",
        operators |-> <<"AA", "BA">>, codeshares |-> <<>>,
        aircraft |-> <<"777", "A380">>],
       [origin |-> "TRW", destination |-> "NBO",
        operators |-> <<"DL">>, codeshares |-> <<"AA">>,
        aircraft |-> <<"777">>],
       [origin |-> "CXI", destination |-> "TRW",
        operators |-> <<>>, codeshares |-> <<"AA">>,
        aircraft |-> <<>>],
       [origin |-> "CXI", destination |-> "NBO",
        operators |-> <<"BA">>, codeshares |-> <<"DL">>,
        aircraft |-> <<"A380">>],
       [origin |-> "TRW", destination |-> "ZZZ",
        operators |-> <<"DL">>, codeshares |-> <<>>,
        aircraft |-> <<"A380">>] >>

\* the pool routes with index in picked, in pool order
PoolPick(picked) == Filter([i \in 1..Len(RoutePool) |-> i], picked)

RouteCollections ==
    { [k \in 1..Len(PoolPick(picked)) |-> RoutePool[PoolPick(picked)[k]]] :
        picked \in { p \in SUBSET (1..Len(RoutePool)) :
                        Cardinality(p) <= MaxRoutes } }

\* process-data.js lines 174-182: one pass, each route appended to the
\* bucket of its origin
BuildIndex_Prepend(rs) ==
    LET index[i \in 0..Len(rs)] ==
            IF i = 0 THEN <<>>
            ELSE LET prev == index[i - 1]
                     route == rs[i]
                 IN IF route.origin \in DOMAIN prev
                    THEN [prev EXCEPT ![route.origin] = <<route>> \o @]
                    ELSE prev @@ (route.origin :> <<route>>)
    IN index[Len(rs)]
BuildIndex(rs) ==
    LET index[i \in 0..Len(rs)] ==
            IF i = 0 THEN <<>>
            ELSE LET prev == index[i - 1]
                     route == rs[i]
                 IN IF route.origin \in DOMAIN prev
                    THEN [prev EXCEPT ![route.origin] = Append(@, route)]
                    ELSE prev @@ (route.origin :> <<route>>)
    IN index[Len(rs)]

\* routesByAirport[code] || []
Lookup(index, code) ==
    IF code \in DOMAIN index THEN index[code] ELSE <<>>

\* FlightMap.tsx lines 35-40: airportMap.current[a.iata] = a for every
\* airport, a later entry of the same code overwriting an earlier one
AirportMap(aps) ==
    [code \in {aps[i].iata : i \in 1..Len(aps)} |->
        aps[CHOOSE i \in 1..Len(aps) :
                /\ aps[i].iata = code
                /\ \A j \in 1..Len(aps) : aps[j].iata = code => j <= i]]

-----------------------------------------------------------------------------
(* Route filter (FlightMap.tsx lines 129-160, Sidebar.tsx lines 68-93)     *)

\* variant: codeshares are matched whatever the flag
routeMatchesAirline_IgnoreFlag(route, airlineCodes, includeCodeshares) ==
    \/ Some(route.operators, Elems(airlineCodes))
    \/ Some(route.codeshares, Elems(airlineCodes))

\* variant: with the flag set only codeshares are matched
routeMatchesAirline_FlagReplaces(route, airlineCodes, includeCodeshares) ==
    IF includeCodeshares
    THEN Some(route.codeshares, Elems(airlineCodes))
    ELSE Some(route.operators, Elems(airlineCodes))

routeMatchesAirline(route, airlineCodes, includeCodeshares) ==
    LET operators == route.operators
        codeshares == route.codeshares
        matchesOperator ==
            Some(operators, Elems(airlineCodes))
    IN IF matchesOperator THEN TRUE
       ELSE IF includeCodeshares
            THEN Some(codeshares, Elems(airlineCodes))
            ELSE FALSE

\* variant: the aircraft selection is not consulted
AirportRouteFilter_NoAircraft(route, f) ==
    IF /\ Len(f.airlines) > 0
       /\ ~routeMatchesAirline(route, f.airlines, f.includeCodeshares)
    THEN FALSE
    ELSE TRUE

\* variant: the airline test runs on an empty selection too
AirportRouteFilter_NoEmptyGuard(route, f) ==
    IF ~routeMatchesAirline(route, f.airlines, f.includeCodeshares)
    THEN FALSE
    ELSE IF /\ Len(f.aircraft) > 0
            /\ ~Some(route.aircraft, Elems(f.aircraft))
         THEN FALSE
         ELSE TRUE

\* the callback of routes.filter in the selectedAirport branch
AirportRouteFilter(route, f) ==
    IF /\ Len(f.airlines) > 0
       /\ ~routeMatchesAirline(route, f.airlines, f.includeCodeshares)
    THEN FALSE
    ELSE IF /\ Len(f.aircraft) > 0
            /\ ~Some(route.aircraft, Elems(f.aircraft))
         THEN FALSE
         ELSE TRUE

\* the callback of allRoutes.filter in the airline-network branch
NetworkRouteFilter(route, f) ==
    routeMatchesAirline(route, f.airlines, f.includeCodeshares)

\* variant: the airport branch filters the whole collection
ResolveRoutes_NoIndex(sel, f, allRoutes, index) ==
    IF sel # Null
    THEN Filter(allRoutes,
                { route \in Elems(allRoutes) : AirportRouteFilter(route, f) })
    ELSE IF Len(f.airlines) > 0
         THEN Filter(allRoutes,
                     { route \in Elems(allRoutes) :
                         NetworkRouteFilter(route, f) })
         ELSE <<>>

\* variant: without any selection the whole collection is shown
ResolveRoutes_ShowAll(sel, f, allRoutes, index) ==
    IF sel # Null
    THEN Filter(Lookup(index, sel.iata),
                { route \in Elems(Lookup(index, sel.iata)) :
                    AirportRouteFilter(route, f) })
    ELSE IF Len(f.airlines) > 0
         THEN Filter(allRoutes,
                     { route \in Elems(allRoutes) :
                         NetworkRouteFilter(route, f) })
         ELSE allRoutes

\* lines 141-160: which routes to show
ResolveRoutes(sel, f, allRoutes, index) ==
    IF sel # Null
    THEN Filter(Lookup(index, sel.iata),
                { route \in Elems(Lookup(index, sel.iata)) :
                    AirportRouteFilter(route, f) })
    ELSE IF Len(f.airlines) > 0
         THEN Filter(allRoutes,
                     { route \in Elems(allRoutes) :
                         NetworkRouteFilter(route, f) })
         ELSE <<>>

-----------------------------------------------------------------------------
(* Drawing (FlightMap.tsx lines 162-237)                                   *)

\* airlineCode.charCodeAt(i): NaN past the end of the string
charCodeAt(airlineCode, i) ==
    IF i < Len(CodeUnits[airlineCode])
    THEN CodeUnits[airlineCode][i + 1]
    ELSE 0

\* getAirlineColor: the hue of hsl(hue, 70%, 60%)
getAirlineColor_WeightsSwapped(airlineCode) ==
    (charCodeAt(airlineCode, 0) * HueWeight1
        + charCodeAt(airlineCode, 1) * HueWeight0) % FullTurn
getAirlineColor(airlineCode) ==
    (charCodeAt(airlineCode, 0) * HueWeight0
        + charCodeAt(airlineCode, 1) * HueWeight1) % FullTurn

\* lines 183-186
ColorAirline_FirstOperator(route, f) ==
    OrElse(First(route.operators), FallbackAirline)
ColorAirline(route, f) ==
    LET operators == route.operators
    IN IF Len(f.airlines) > 0
       THEN OrElse(Find(operators, Elems(f.airlines)),
                   First(operators))
       ELSE OrElse(First(operators), FallbackAirline)

\* lines 34-40: airportMap.current after the effect has run over aps: each
\* airport is stored under its code, and no entry is removed
AirportMapEffect(ref, aps) ==
    [code \in DOMAIN ref \cup DOMAIN AirportMap(aps) |->
        IF code \in DOMAIN AirportMap(aps)
        THEN AirportMap(aps)[code]
        ELSE ref[code]]

\* lines 42-48: airlineMap.current after the effect has run over als; a
\* later entry of one code overwrites an earlier one
AirlineMap(als) ==
    [code \in {als[i].iata : i \in 1..Len(als)} |->
        als[CHOOSE i \in 1..Len(als) :
                /\ als[i].iata = code
                /\ \A j \in 1..Len(als) : als[j].iata = code => j <= i]]

\* operators.slice(0, 3) of line 190
TooltipOperators == 3

\* lines 189-192, before the join: airlineMap.current[code]?.name || code
\* over the first three operators
OperatorNames_Codes(operators, airlineMap) ==
    SubSeq(operators, 1,
           IF Len(operators) < TooltipOperators
           THEN Len(operators) ELSE TooltipOperators)
OperatorNames_All(operators, airlineMap) ==
    [k \in 1..Len(operators) |->
        IF operators[k] \in DOMAIN airlineMap
        THEN airlineMap[operators[k]].name ELSE operators[k]]
OperatorNames(operators, airlineMap) ==
    LET shown == SubSeq(operators, 1,
                        IF Len(operators) < TooltipOperators
                        THEN Len(operators) ELSE TooltipOperators)
    IN [k \in 1..Len(shown) |->
          IF /\ shown[k] \in DOMAIN airlineMap
             /\ airlineMap[shown[k]].name # ""
          THEN airlineMap[shown[k]].name
          ELSE shown[k]]

\* line 193: the number of " +N more", or nothing for the empty string
MoreOperators(operators) ==
    IF Len(operators) > TooltipOperators
    THEN <<Len(operators) - TooltipOperators>>
    ELSE <<>>

\* what the pass adds to the layer for one route: the polyline with its
\* tooltip and the destination marker at the last arc point
DrawnRoute(route, f, airportMap, sign) ==
    LET originAirport == airportMap[route.origin]
        destAirport == airportMap[route.destination]
        arc == getArcPoints(<<originAirport.lat, originAirport.lon>>,
                            <<destAirport.lat, destAirport.lon>>,
                            RouteArcSteps, sign)
        colorAirline == ColorAirline(route, f)
    IN [origin |-> route.origin,
        destination |-> route.destination,
        polyline |-> arc,
        colorAirline |-> colorAirline,
        hue |-> getAirlineColor(colorAirline),
        operatorNames |-> OperatorNames(route.operators,
                                        AirlineMap(airlines)),
        moreOperators |-> MoreOperators(route.operators),
        endPoint |-> arc[Len(arc)]]

\* routesLayerRef.current.clearLayers() of line 126, as the layer it leaves
ClearLayers(layer) == <<>>

\* routesToShow.forEach: a route with an unresolved endpoint is skipped;
\* getAirlineColor(undefined) throws a TypeError, which ends the pass
DrawRoutes(layer, toShow, f, airportMap, sign) ==
    LET pass[i \in 0..Len(toShow)] ==
            IF i = 0 THEN [layer |-> layer, thrown |-> FALSE]
            ELSE LET prev == pass[i - 1]
                     route == toShow[i]
                 IN IF prev.thrown THEN prev
                    ELSE IF \/ route.origin \notin DOMAIN airportMap
                            \/ route.destination \notin DOMAIN airportMap
                         THEN prev
                    ELSE IF ColorAirline(route, f) = Undefined
                         THEN [prev EXCEPT !.thrown = TRUE]
                    ELSE [prev EXCEPT !.layer =
                            Append(@, DrawnRoute(route, f, airportMap, sign))]
    IN pass[Len(toShow)]

\* the route-drawing effect, run after a change of selectedAirport or
\* filters: the layer is cleared, the routes resolved and drawn
RedrawRoutes(sel, f) ==
    LET toShow == ResolveRoutes(sel, f, routes, routesByAirport)
        drawn == DrawRoutes(ClearLayers(routesLayer), toShow, f,
                            airportMapRef, fpSign)
    IN /\ routesToShow' = toShow
       /\ routesLayer' = drawn.layer
       /\ renderError' = drawn.thrown

-----------------------------------------------------------------------------
(* Sidebar.tsx and page.tsx handlers *)

EmptyFilters == [airlines |-> <<>>, aircraft |-> <<>>,
                 includeCodeshares |-> FALSE]

hasActiveFilters == Len(filters.airlines) > 0 \/ Len(filters.aircraft) > 0

\* Sidebar.tsx lines 96-107
availableAirlines ==
    IF selectedAirport = Null THEN airlines
    ELSE LET airportRoutes == Lookup(routesByAirport, selectedAirport.iata)
             airlineCodes ==
                 UNION { { r.operators[k] : k \in 1..Len(r.operators) }
                         \cup (IF filters.includeCodeshares
                                THEN { r.codeshares[k] :
                                         k \in 1..Len(r.codeshares) }
                                ELSE {}) :
                         r \in { airportRoutes[i] :
                                   i \in 1..Len(airportRoutes) } }
         IN Filter(airlines,
                   { a \in Elems(airlines) : a.iata \in airlineCodes })

\* Sidebar.tsx lines 110-116
availableAircraft ==
    IF selectedAirport = Null THEN aircraftTypes
    ELSE LET airportRoutes == Lookup(routesByAirport, selectedAirport.iata)
             types ==
                 UNION { { r.aircraft[k] : k \in 1..Len(r.aircraft) } :
                         r \in { airportRoutes[i] :
                                   i \in 1..Len(airportRoutes) } }
         IN Filter(aircraftTypes, types)

\* the filter callback of Sidebar.tsx lines 84-91 (routeMatchesAirline of
\* lines 67-76 is the function FlightMap.tsx has)
SidebarRouteFilter_NoAircraft(route, f) ==
    Len(f.airlines) > 0 =>
        routeMatchesAirline(route, f.airlines, f.includeCodeshares)
SidebarRouteFilter(route, f) ==
    /\ Len(f.airlines) > 0 =>
           routeMatchesAirline(route, f.airlines, f.includeCodeshares)
    /\ Len(f.aircraft) > 0 =>
           Some(route.aircraft, Elems(f.aircraft))

\* Sidebar.tsx lines 80-93
currentRoutes ==
    IF selectedAirport = Null THEN <<>>
    ELSE LET airportRoutes == Lookup(routesByAirport, selectedAirport.iata)
         IN Filter(airportRoutes,
                   { r \in Elems(airportRoutes) :
                       SidebarRouteFilter(r, filters) })

\* the number in front of "routes" in the airline-network panel, Sidebar.tsx
\* line 482
networkRoutesCount ==
    Len(Filter(routes,
               { r \in Elems(routes) :
                   routeMatchesAirline(r, filters.airlines,
                                       filters.includeCodeshares) }))

\* the number in front of "destinations", Sidebar.tsx line 278
destinationsCount == Len(currentRoutes)

\* the rows under "Destinations from": lines 435-437 return null for a
\* route whose destination is not in the airport map
listedDestinations ==
    Filter(currentRoutes,
           { r \in Elems(currentRoutes) :
               r.destination \in DOMAIN AirportMap(airports) })

\* the toggle of lines 140-142 and 147-149
Toggled_AlwaysAppends(selected, code) == Append(selected, code)
Toggled(selected, code) ==
    IF Includes(selected, code)
    THEN Filter(selected, { a \in Elems(selected) : a # code })
    ELSE Append(selected, code)

\* filteredAirlines of Sidebar.tsx lines 118-131, with the search box
\* empty, as the array the airlines state holds afterwards: with no airport
\* selected availableAirlines is that very array and result.sort sorts it
\* in place; with an airport selected the sort works on a filtered copy
AirlinesAfterRender(sel, als) ==
    IF sel = Null THEN SortByName(als) ELSE als

\* the Sidebar renders again after a change of selectedAirport
RenderSidebar(sel) == airlines' = AirlinesAfterRender(sel, airlines)

\* onAirportSelect(airport): a marker, a search result, a destination
SelectAirport(airport) ==
    /\ ~loading
    /\ ~renderError
    /\ Includes(airports, airport)
    /\ selectedAirport' = airport
    /\ RenderSidebar(airport)
    /\ RedrawRoutes(airport, filters)
    /\ UNCHANGED <<filters, dataVars, backVars>>

\* onAirportSelect(null)
DeselectAirport ==
    /\ ~loading
    /\ ~renderError
    /\ selectedAirport # Null
    /\ selectedAirport' = Null
    /\ RenderSidebar(Null)
    /\ RedrawRoutes(Null, filters)
    /\ UNCHANGED <<filters, dataVars, backVars>>

\* the handlers hand a new filter object to onFiltersChange
ReplaceFilters(newFilters) ==
    /\ ~loading
    /\ filters' = newFilters
    /\ RenderSidebar(selectedAirport)
    /\ RedrawRoutes(selectedAirport, newFilters)
    /\ UNCHANGED <<selectedAirport, dataVars, backVars>>

toggleAirline(code) ==
    /\ ~renderError
    /\ Some(availableAirlines,
            { a \in Elems(availableAirlines) : a.iata = code })
    /\ ReplaceFilters([filters EXCEPT
                         !.airlines = Toggled(filters.airlines, code)])

toggleAircraft(type) ==
    /\ ~renderError
    /\ Includes(availableAircraft, type)
    /\ ReplaceFilters([filters EXCEPT
                         !.aircraft = Toggled(filters.aircraft, type)])

toggleCodeshares ==
    /\ ~renderError
    /\ ReplaceFilters([filters EXCEPT
                         !.includeCodeshares = ~filters.includeCodeshares])

clearFilters ==
    /\ ~renderError
    /\ hasActiveFilters
    /\ ReplaceFilters(EmptyFilters)

handleReset_KeepsFilters ==
    /\ ~loading
    /\ ~renderError
    /\ selectedAirport # Null \/ hasActiveFilters
    /\ selectedAirport' = Null
    /\ filters' = filters
    /\ RenderSidebar(Null)
    /\ RedrawRoutes(Null, filters)
    /\ UNCHANGED <<dataVars, backVars>>
handleReset ==
    /\ ~loading
    /\ ~renderError
    /\ selectedAirport # Null \/ hasActiveFilters
    /\ selectedAirport' = Null
    /\ filters' = EmptyFilters
    /\ RenderSidebar(Null)
    /\ RedrawRoutes(Null, EmptyFilters)
    /\ UNCHANGED <<dataVars, backVars>>

-----------------------------------------------------------------------------
(* The application, from its first render *)

\* the content of public/data the page may find: the index is the one
\* process-data.js builds from the routes
DataFileSets ==
    { [airports |-> AirportList,
       airlines |-> AirlineList,
       routes |-> rs,
       routesByAirport |-> BuildIndex(rs),
       aircraftTypes |-> AircraftTypeList] : rs \in RouteCollections }

NoDataFiles ==
    [airports |-> <<>>, airlines |-> <<>>, routes |-> <<>>,
     routesByAirport |-> <<>>, aircraftTypes |-> <<>>]

\* the object useState was given for filters, and no other object yet
FreshFilterObjects == [id \in {0, 1} |-> IF id = 0 THEN EmptyFilters ELSE Null]

\* page.tsx lines 19-26: the state of the first render
InitPage ==
    /\ loading = TRUE
    /\ airports = <<>>
    /\ airlines = <<>>
    /\ routes = <<>>
    /\ routesByAirport = <<>>
    /\ aircraftTypes = <<>>
    /\ selectedAirport = Null
    /\ filters = EmptyFilters
    /\ filterObjects = FreshFilterObjects
    /\ filtersRef = 0
    /\ airportMapRef = <<>>
    /\ routesToShow = <<>>
    /\ routesLayer = <<>>
    /\ renderError = FALSE

NoArcCall ==
    /\ arcStart = <<0, 0>>
    /\ arcEnd = <<0, 0>>
    /\ arcSteps = 0
    /\ arcPoints = <<>>

Init ==
    /\ dataFiles \in DataFileSets
    /\ lastScript = "none"
    /\ scriptRuns = 0
    /\ fpSign \in {-HalfTurn, HalfTurn}
    /\ InitPage
    /\ NoArcCall

\* loadData of page.tsx lines 34-68 when the five fetches succeed, and the
\* render that follows: the Sidebar mounts with no airport selected, the
\* route effect of the map finds nothing to draw
LoadData ==
    /\ loading
    /\ airports' = dataFiles.airports
    /\ airlines' = AirlinesAfterRender(selectedAirport, dataFiles.airlines)
    /\ routes' = dataFiles.routes
    /\ routesByAirport' = dataFiles.routesByAirport
    /\ aircraftTypes' = dataFiles.aircraftTypes
    /\ airportMapRef' = AirportMapEffect(airportMapRef, dataFiles.airports)
    /\ loading' = FALSE
    /\ UNCHANGED <<uiVars, fpSign, fileVars, heapVars, arcVars>>

\* loadData when a fetch or a parse fails: the catch block of lines 62-64
LoadDataFails_AfterSetAirports ==
    /\ loading
    /\ airports' = dataFiles.airports
    /\ airportMapRef' = AirportMapEffect(airportMapRef, dataFiles.airports)
    /\ loading' = FALSE
    /\ UNCHANGED <<airlines, uiVars, routes, routesByAirport, aircraftTypes,
                   fpSign, fileVars, heapVars, arcVars>>
LoadDataFails ==
    /\ loading
    /\ loading' = FALSE
    /\ UNCHANGED <<airlines, uiVars, dataVars, fileVars, heapVars, arcVars>>

Next ==
    \/ LoadData
    \/ LoadDataFails
    \/ \E i \in 1..Len(airports) : SelectAirport(airports[i])
    \/ DeselectAirport
    \/ \E i \in 1..Len(airlines) : toggleAirline(airlines[i].iata)
    \/ \E i \in 1..Len(aircraftTypes) : toggleAircraft(aircraftTypes[i])
    \/ toggleCodeshares
    \/ clearFilters
    \/ handleReset

Spec == Init /\ [][Next]_vars

\* the promises of loadData settle: the fetches and the parses are
\* fulfilled or one of them is rejected, and the continuation runs
SpecLive == Spec /\ WF_vars(LoadData \/ LoadDataFails)

-----------------------------------------------------------------------------
(* getArcPoints called on its own *)

ArcLats == {-60, 0, 60}
ArcLons == {-157, -120, -60, 0, 60, 120, 173}

InitArc ==
    /\ dataFiles = NoDataFiles
    /\ lastScript = "none"
    /\ scriptRuns = 0
    /\ fpSign \in {-HalfTurn, HalfTurn}
    /\ InitPage
    /\ arcStart \in ArcLats \X ArcLons
    /\ arcEnd \in ArcLats \X ArcLons
    /\ Interpolable(arcStart, arcEnd)
    /\ arcSteps \in 1..MaxSteps
    /\ arcPoints = <<>>

\* the call returns its array
CallGetArcPoints ==
    /\ arcPoints = <<>>
    /\ arcPoints' = getArcPoints(arcStart, arcEnd, arcSteps, fpSign)
    /\ UNCHANGED <<arcStart, arcEnd, arcSteps, airlines, dataVars, uiVars,
                   fileVars, loading, heapVars>>

NextArc == CallGetArcPoints

SpecArc == InitArc /\ [][NextArc]_vars

-----------------------------------------------------------------------------
(* The filter handlers, with the objects they build *)

\* an object literal handed to onFiltersChange / setFilters: a new object,
\* which the filters state then refers to; the object the state referred
\* to before stays as it was (the one before that is garbage)
StoreFilters_InPlace(objects, ref, newFilters) ==
    [objects |-> [objects EXCEPT ![ref] = newFilters], ref |-> ref]
StoreFilters(objects, ref, newFilters) ==
    [objects |-> [objects EXCEPT ![1 - ref] = newFilters], ref |-> 1 - ref]

setFilters(newFilters) ==
    LET stored == StoreFilters(filterObjects, filtersRef, newFilters)
    IN /\ filterObjects' = stored.objects
       /\ filtersRef' = stored.ref
       /\ filters' = stored.objects[stored.ref]
       /\ UNCHANGED <<airlines, dataVars, fileVars, loading, arcVars,
                      selectedAirport, routesToShow, routesLayer,
                      renderError>>

\* Sidebar.tsx lines 139-144
FiltersToggleAirline(code) ==
    /\ ~loading
    /\ Some(availableAirlines,
            { a \in Elems(availableAirlines) : a.iata = code })
    /\ setFilters([filters EXCEPT
                     !.airlines = Toggled(filters.airlines, code)])

\* Sidebar.tsx lines 146-151
FiltersToggleAircraft(type) ==
    /\ ~loading
    /\ Includes(availableAircraft, type)
    /\ setFilters([filters EXCEPT
                     !.aircraft = Toggled(filters.aircraft, type)])

\* Sidebar.tsx lines 157-159
FiltersToggleCodeshares ==
    /\ ~loading
    /\ setFilters([filters EXCEPT
                     !.includeCodeshares = ~filters.includeCodeshares])

\* Sidebar.tsx lines 153-155
FiltersClear ==
    /\ ~loading
    /\ hasActiveFilters
    /\ setFilters(EmptyFilters)

\* page.tsx lines 28-31, no airport being selected
FiltersReset ==
    /\ ~loading
    /\ hasActiveFilters
    /\ selectedAirport = Null
    /\ setFilters(EmptyFilters)

InitFilters ==
    /\ Init
    /\ dataFiles.routes = <<>>
    /\ fpSign = HalfTurn

NextFilters ==
    \/ LoadData
    \/ LoadDataFails
    \/ \E i \in 1..Len(airlines) : FiltersToggleAirline(airlines[i].iata)
    \/ \E i \in 1..Len(aircraftTypes) :
          FiltersToggleAircraft(aircraftTypes[i])
    \/ FiltersToggleCodeshares
    \/ FiltersClear
    \/ FiltersReset

SpecFilters == InitFilters /\ [][NextFilters]_vars

-----------------------------------------------------------------------------
(* scripts/process-data.js *)

\* rows of airports.csv: Sydney has no scheduled service in this file
RawAirportRows ==
    << [iata_code |-> "TRW", scheduled_service |-> "yes",
        latitude_deg |-> 0, longitude_deg |-> 173],
       [iata_code |-> "CXI", scheduled_service |-> "yes",
        latitude_deg |-> 0, longitude_deg |-> -157],
       [iata_code |-> "SYD", scheduled_service |-> "no",
        latitude_deg |-> -34, longitude_deg |-> 151],
       [iata_code |-> "NBO", scheduled_service |-> "yes",
        latitude_deg |-> 0, longitude_deg |-> 37] >>

\* rows of airlines.dat: Qantas is not active in this file
RawAirlineRows ==
    << [iata |-> "AA", name |-> "American Airlines", active |-> "Y"],
       [iata |-> "DL", name |-> "Delta Air Lines", active |-> "Y"],
       [iata |-> "QF", name |-> "Qantas", active |-> "N"],
       [iata |-> "BA", name |-> "British Airways", active |-> "Y"] >>

\* an equipment field is its words with the blanks between them
Blank == " "

\* rows routes.dat is made of: two operators and a codeshare of one route,
\* a row to an unknown airport, a row of a second route from the same
\* airport with a three-letter airline code, a row of a route from
\* another airport with a doubled blank in its equipment
RawRoutePool ==
    << [airline |-> "AA", source |-> "TRW", dest |-> "CXI",
        codeshare |-> "", equipment |-> <<"777">>],
       [airline |-> "BA", source |-> "TRW", dest |-> "CXI",
        codeshare |-> "", equipment |-> <<"777", Blank, "A380">>],
       [airline |-> "DL", source |-> "TRW", dest |-> "CXI",
        codeshare |-> "Y", equipment |-> <<"A380">>],
       [airline |-> "DL", source |-> "CXI", dest |-> "ZZZ",
        codeshare |-> "", equipment |-> <<"777">>],
       [airline |-> "AAL", source |-> "TRW", dest |-> "NBO",
        codeshare |-> "", equipment |-> <<>>],
       [airline |-> "DL", source |-> "NBO", dest |-> "TRW",
        codeshare |-> "", equipment |-> <<"A380", Blank, Blank, "777">>] >>

\* lines 69-81, the fields the application reads
ProcessAirports(rawAirports) ==
    LET kept == Filter(rawAirports,
                       { a \in Elems(rawAirports) :
                           /\ a.iata_code # ""
                           /\ Len(a.iata_code) = 3
                           /\ a.scheduled_service = "yes" })
    IN [i \in 1..Len(kept) |->
          [iata |-> kept[i].iata_code,
           lat |-> kept[i].latitude_deg,
           lon |-> kept[i].longitude_deg]]

\* lines 100-107
ProcessAirlines(rawAirlines) ==
    LET kept == Filter(rawAirlines,
                       { a \in Elems(rawAirlines) :
                           /\ a.iata # ""
                           /\ Len(a.iata) = 2
                           /\ a.active = "Y" })
    IN [i \in 1..Len(kept) |->
          [iata |-> kept[i].iata, name |-> kept[i].name]]

\* if (!arr.includes(x)) arr.push(x)
PushNew(arr, x) == IF Includes(arr, x) THEN arr ELSE Append(arr, x)

\* String.prototype.split(' ')
Split(str) ==
    LET tokens[i \in 0..Len(str)] ==
            IF i = 0 THEN <<"">>
            ELSE LET left == tokens[i - 1]
                 IN IF str[i] = Blank THEN Append(left, "")
                    ELSE [left EXCEPT ![Len(left)] = str[i]]
    IN tokens[Len(str)]

\* position of the route of a key in a key-ordered map, 0 when absent
KeyIndex(routeMap, origin, destination) ==
    LET at == { k \in 1..Len(routeMap) :
                  /\ routeMap[k].origin = origin
                  /\ routeMap[k].destination = destination }
    IN IF at = {} THEN 0 ELSE CHOOSE k \in at : \A j \in at : k <= j

\* the callback of rawRoutes.forEach, lines 129-168; routeMap is held as
\* the sequence of its values in key insertion order
AddRawRoute(routeMap, r, airportMap) ==
    IF \/ r.source = "" \/ r.dest = ""
       \/ Len(r.source) # 3 \/ Len(r.dest) # 3
    THEN routeMap
    ELSE IF r.source \notin DOMAIN airportMap \/ r.dest \notin DOMAIN airportMap
    THEN routeMap
    ELSE
      LET isCodeshare == r.codeshare = "Y"
          created ==
              IF KeyIndex(routeMap, r.source, r.dest) = 0
              THEN Append(routeMap,
                          [origin |-> r.source, destination |-> r.dest,
                           operators |-> <<>>, codeshares |-> <<>>,
                           aircraft |-> <<>>])
              ELSE routeMap
          k == KeyIndex(created, r.source, r.dest)
          withAirline ==
              IF r.airline # "" /\ Len(r.airline) = 2
              THEN IF isCodeshare
                   THEN [created[k] EXCEPT
                           !.codeshares = PushNew(@, r.airline)]
                   ELSE [created[k] EXCEPT
                           !.operators = PushNew(@, r.airline)]
              ELSE created[k]
          equipment == Split(r.equipment)
          pushed[i \in 0..Len(equipment)] ==
              IF i = 0 THEN withAirline.aircraft
              ELSE IF equipment[i] # ""
                   THEN PushNew(pushed[i - 1], equipment[i])
                   ELSE pushed[i - 1]
          withEquipment ==
              IF r.equipment # <<>> /\ ~isCodeshare
              THEN [withAirline EXCEPT !.aircraft = pushed[Len(equipment)]]
              ELSE withAirline
      IN [created EXCEPT ![k] = withEquipment]

\* lines 127-171: Object.values(routeMap) after the pass over the rows
ProcessRoutes(rawRoutes, airportMap) ==
    LET routeMap[i \in 0..Len(rawRoutes)] ==
            IF i = 0 THEN <<>>
            ELSE AddRawRoute(routeMap[i - 1], rawRoutes[i], airportMap)
    IN routeMap[Len(rawRoutes)]

\* the aircraft types in use, in the order Array.prototype.sort gives
TypeOrder == <<"777", "A380">>

\* lines 187-189
CollectAircraftTypes(rs) ==
    Filter(TypeOrder,
           UNION { Elems(rs[i].aircraft) : i \in 1..Len(rs) })

\* the sequences of at most MaxRawRows rows routes.dat may hold
RawRouteFiles ==
    UNION { [1..n -> Elems(RawRoutePool)] : n \in 0..MaxRawRows }

\* a run of process-data.js: the five files are written from one pass
RunProcessData(rawRoutes) ==
    LET airportRows == ProcessAirports(RawAirportRows)
        rs == ProcessRoutes(rawRoutes, AirportMap(airportRows))
    IN /\ scriptRuns < MaxScriptRuns
       /\ dataFiles' = [airports |-> airportRows,
                        airlines |-> ProcessAirlines(RawAirlineRows),
                        routes |-> rs,
                        routesByAirport |-> BuildIndex(rs),
                        aircraftTypes |-> CollectAircraftTypes(rs)]
       /\ lastScript' = "process-data"
       /\ scriptRuns' = scriptRuns + 1
       /\ UNCHANGED <<loading, airlines, dataVars, uiVars, heapVars, arcVars>>

-----------------------------------------------------------------------------
(* scripts/update-routes.js *)

\* two of the airports of MAJOR_AIRPORTS (lines 111 and 130)
MajorAirports == <<"NBO", "SYD">>

\* String.prototype.toLowerCase on the names in use
toLowerCase(name) ==
    CASE name = "American Airlines" -> "american airlines"
      [] name = "Delta Air Lines" -> "delta air lines"
      [] name = "British Airways" -> "british airways"
      [] name = "Delta" -> "delta"
      [] name = "Qantas" -> "qantas"
      [] OTHER -> name

\* String.prototype.includes on the lower-case names in use
StringIncludes(whole, part) ==
    \/ whole = part
    \/ whole = "delta air lines" /\ part = "delta"

\* the null matchAirlineToIATA returns, among codes that are strings
NoIata == "null"

\* lines 235-252
matchAirlineToIATA(airlineName, knownAirlines) ==
    LET exact == { a \in Elems(knownAirlines) :
                     \/ toLowerCase(a.name) = toLowerCase(airlineName)
                     \/ a.iata = airlineName }
        partial == { a \in Elems(knownAirlines) :
                       \/ StringIncludes(toLowerCase(a.name),
                                         toLowerCase(airlineName))
                       \/ StringIncludes(toLowerCase(airlineName),
                                         toLowerCase(a.name)) }
    IN IF Some(knownAirlines, exact) THEN Find(knownAirlines, exact).iata
       ELSE IF Some(knownAirlines, partial)
            THEN Find(knownAirlines, partial).iata
       ELSE NoIata

\* rows scrapeAirportWikipedia may return for an airport: an airline cell
\* and the airport codes of the destination cell
ScrapedRows ==
    [delta |-> [airlines |-> <<"Delta Air Lines">>,
                destinations |-> <<"TRW", "ZZZ">>],
     british |-> [airlines |-> <<"british airways", "Qantas">>,
                  destinations |-> <<"TRW", "NBO">>],
     short |-> [airlines |-> <<"Delta">>, destinations |-> <<"CXI">>],
     qantas |-> [airlines |-> <<"Qantas">>, destinations |-> <<"CXI">>]]

\* what scrapeAirportWikipedia may return: the rows of the page, or no row
\* (null and the empty array are told apart nowhere, line 340)
ScrapeResults ==
    { <<>>, <<ScrapedRows.delta>>, <<ScrapedRows.british>>,
      <<ScrapedRows.delta, ScrapedRows.british>>, <<ScrapedRows.short>>,
      <<ScrapedRows.qantas>> }

\* lines 347-372 for one destination of one row: the route of the key is
\* created when missing and the matched airlines added to its operators
AddScraped(allRoutes, origin, dest, names, knownAirlines, validAirportCodes) ==
    IF dest \notin validAirportCodes THEN allRoutes
    ELSE IF dest = origin THEN allRoutes
    ELSE
      LET created ==
              IF KeyIndex(allRoutes, origin, dest) = 0
              THEN Append(allRoutes,
                          [origin |-> origin, destination |-> dest,
                           operators |-> <<>>, codeshares |-> <<>>,
                           aircraft |-> <<>>])
              ELSE allRoutes
          k == KeyIndex(created, origin, dest)
          added[i \in 0..Len(names)] ==
              IF i = 0 THEN created[k].operators
              ELSE LET iata == matchAirlineToIATA(names[i], knownAirlines)
                   IN IF iata # NoIata THEN PushNew(added[i - 1], iata)
                      ELSE added[i - 1]
      IN [created EXCEPT ![k].operators = added[Len(names)]]

\* Step 1, lines 330-379: scrape[i] is what the page of MajorAirports[i]
\* gave; allRoutes is held as its values in key insertion order
ScrapeRoutes(scrape, knownAirlines, validAirportCodes) ==
    LET ofRow(allRoutes, origin, entry) ==
            LET perDest[j \in 0..Len(entry.destinations)] ==
                    IF j = 0 THEN allRoutes
                    ELSE AddScraped(perDest[j - 1], origin,
                                    entry.destinations[j], entry.airlines,
                                    knownAirlines, validAirportCodes)
            IN perDest[Len(entry.destinations)]
        ofAirport(allRoutes, origin, data) ==
            IF Len(data) = 0 THEN allRoutes
            ELSE LET perRow[j \in 0..Len(data)] ==
                         IF j = 0 THEN allRoutes
                         ELSE ofRow(perRow[j - 1], origin, data[j])
                 IN perRow[Len(data)]
        perAirport[i \in 0..Len(MajorAirports)] ==
            IF i = 0 THEN <<>>
            ELSE ofAirport(perAirport[i - 1], MajorAirports[i], scrape[i])
    IN perAirport[Len(MajorAirports)]

\* Array.from(new Set([...a, ...b])): first occurrences, in order
SetUnion_Concat(a, b) == a \o b
SetUnion(a, b) ==
    LET both == a \o b
        seen[i \in 0..Len(both)] ==
            IF i = 0 THEN <<>> ELSE PushNew(seen[i - 1], both[i])
    IN seen[Len(both)]

\* existingRouteMap.get(key): the last existing route of the key, 0 if none
ExistingIndex(existingRoutes, origin, destination) ==
    LET at == { k \in 1..Len(existingRoutes) :
                  /\ existingRoutes[k].origin = origin
                  /\ existingRoutes[k].destination = destination }
    IN IF at = {} THEN 0 ELSE CHOOSE k \in at : \A j \in at : j <= k

\* Step 3, lines 403-450: the scraped routes, merged with the existing
\* route of their key, then the existing routes of the other keys
MergeRoutes_KeepAll(existingRoutes, allRoutes) ==
    LET merged(route) ==
            LET e == ExistingIndex(existingRoutes, route.origin,
                                   route.destination)
            IN IF e # 0
               THEN [origin |-> route.origin,
                     destination |-> route.destination,
                     operators |-> SetUnion(existingRoutes[e].operators,
                                            route.operators),
                     codeshares |-> existingRoutes[e].codeshares,
                     aircraft |-> existingRoutes[e].aircraft]
               ELSE [origin |-> route.origin,
                     destination |-> route.destination,
                     operators |-> route.operators,
                     codeshares |-> <<>>,
                     aircraft |-> <<>>]
        scraped == [i \in 1..Len(allRoutes) |-> merged(allRoutes[i])]
        kept[i \in 0..Len(existingRoutes)] ==
            IF i = 0 THEN scraped
            ELSE Append(kept[i - 1], existingRoutes[i])
    IN kept[Len(existingRoutes)]
MergeRoutes_ScrapedOperators(existingRoutes, allRoutes) ==
    LET merged(route) ==
            LET e == ExistingIndex(existingRoutes, route.origin,
                                   route.destination)
            IN IF e # 0
               THEN [origin |-> route.origin,
                     destination |-> route.destination,
                     operators |-> route.operators,
                     codeshares |-> existingRoutes[e].codeshares,
                     aircraft |-> existingRoutes[e].aircraft]
               ELSE [origin |-> route.origin,
                     destination |-> route.destination,
                     operators |-> route.operators,
                     codeshares |-> <<>>,
                     aircraft |-> <<>>]
        scraped == [i \in 1..Len(allRoutes) |-> merged(allRoutes[i])]
        kept[i \in 0..Len(existingRoutes)] ==
            IF i = 0 THEN scraped
            ELSE IF KeyIndex(kept[i - 1], existingRoutes[i].origin,
                             existingRoutes[i].destination) = 0
                 THEN Append(kept[i - 1], existingRoutes[i])
                 ELSE kept[i - 1]
    IN kept[Len(existingRoutes)]
MergeRoutes(existingRoutes, allRoutes) ==
    LET merged(route) ==
            LET e == ExistingIndex(existingRoutes, route.origin,
                                   route.destination)
            IN IF e # 0
               THEN [origin |-> route.origin,
                     destination |-> route.destination,
                     operators |-> SetUnion(existingRoutes[e].operators,
                                            route.operators),
                     codeshares |-> existingRoutes[e].codeshares,
                     aircraft |-> existingRoutes[e].aircraft]
               ELSE [origin |-> route.origin,
                     destination |-> route.destination,
                     operators |-> route.operators,
                     codeshares |-> <<>>,
                     aircraft |-> <<>>]
        scraped == [i \in 1..Len(allRoutes) |-> merged(allRoutes[i])]
        kept[i \in 0..Len(existingRoutes)] ==
            IF i = 0 THEN scraped
            ELSE IF KeyIndex(kept[i - 1], existingRoutes[i].origin,
                             existingRoutes[i].destination) = 0
                 THEN Append(kept[i - 1], existingRoutes[i])
                 ELSE kept[i - 1]
    IN kept[Len(existingRoutes)]

\* line 453
ValidRoutes(finalRoutes) ==
    Filter(finalRoutes,
           { r \in Elems(finalRoutes) : Len(r.operators) > 0 })

\* lines 463-474: every airline, with its active flag
UpdatedAirlines(knownAirlines, validRoutes) ==
    LET activeAirlines ==
            UNION { Elems(validRoutes[i].operators) :
                      i \in 1..Len(validRoutes) }
    IN [i \in 1..Len(knownAirlines) |->
          [iata |-> knownAirlines[i].iata,
           name |-> knownAirlines[i].name,
           active |-> knownAirlines[i].iata \in activeAirlines]]

\* a run of update-routes.js that reaches Step 4: routes.json and
\* airlines.json are written, the other files are left as they are
RunUpdateRoutes(scrape) ==
    /\ lastScript # "none"
    /\ scriptRuns < MaxScriptRuns
    /\ LET validAirportCodes ==
               { dataFiles.airports[i].iata :
                   i \in 1..Len(dataFiles.airports) }
           allRoutes == ScrapeRoutes(scrape, dataFiles.airlines,
                                     validAirportCodes)
           validRoutes == ValidRoutes(MergeRoutes(dataFiles.routes,
                                                  allRoutes))
       IN dataFiles' = [dataFiles EXCEPT
                          !.routes = validRoutes,
                          !.airlines = UpdatedAirlines(dataFiles.airlines,
                                                       validRoutes)]
    /\ lastScript' = "update-routes"
    /\ scriptRuns' = scriptRuns + 1
    /\ UNCHANGED <<loading, airlines, dataVars, uiVars, heapVars, arcVars>>

InitScripts ==
    /\ dataFiles = NoDataFiles
    /\ lastScript = "none"
    /\ scriptRuns = 0
    /\ fpSign = HalfTurn
    /\ InitPage
    /\ NoArcCall

NextScripts ==
    \/ \E rawRoutes \in RawRouteFiles : RunProcessData(rawRoutes)
    \/ \E scrape \in [1..Len(MajorAirports) -> ScrapeResults] :
          RunUpdateRoutes(scrape)

SpecScripts == InitScripts /\ [][NextScripts]_vars

\* the scripts, and the page opened once public/data has its files
LoadWrittenData ==
    /\ lastScript # "none"
    /\ LoadData

NextDeploy ==
    \/ NextScripts
    \/ LoadWrittenData

SpecDeploy == InitScripts /\ [][NextDeploy]_vars

-----------------------------------------------------------------------------
(* The page over a dataset of one route, whose operator list varies *)

OperatorLists ==
    { ops \in UNION { [1..n -> DOMAIN CodeUnits] : n \in 0..MaxOperators } :
        \A i, j \in 1..Len(ops) : ops[i] = ops[j] => i = j }

TooltipRoute(ops) ==
    [origin |-> "TRW", destination |-> "NBO", operators |-> ops,
     codeshares |-> <<>>, aircraft |-> <<"777">>]

InitTooltip ==
    /\ \E ops \in OperatorLists :
          dataFiles = [airports |-> AirportList,
                       airlines |-> AirlineList,
                       routes |-> <<TooltipRoute(ops)>>,
                       routesByAirport |-> BuildIndex(<<TooltipRoute(ops)>>),
                       aircraftTypes |-> AircraftTypeList]
    /\ lastScript = "none"
    /\ scriptRuns = 0
    /\ fpSign \in {-HalfTurn, HalfTurn}
    /\ InitPage
    /\ NoArcCall

NextTooltip ==
    \/ LoadData
    \/ LoadDataFails
    \/ \E i \in 1..Len(airports) : SelectAirport(airports[i])
    \/ DeselectAirport
    \/ handleReset

SpecTooltip == InitTooltip /\ [][NextTooltip]_vars

-----------------------------------------------------------------------------
(* FlightMap under a parent that hands it another airports array *)

\* the airports prop: the airports of the dataset, or some of them
AirportLists ==
    { Filter(AirportList, keep) : keep \in SUBSET Elems(AirportList) }

\* FlightMap as Home mounts it: the datasets are loaded
InitMap ==
    /\ dataFiles \in DataFileSets
    /\ lastScript = "none"
    /\ scriptRuns = 0
    /\ fpSign \in {-HalfTurn, HalfTurn}
    /\ loading = FALSE
    /\ airports = dataFiles.airports
    /\ airlines = AirlinesAfterRender(Null, dataFiles.airlines)
    /\ routes = dataFiles.routes
    /\ routesByAirport = dataFiles.routesByAirport
    /\ aircraftTypes = dataFiles.aircraftTypes
    /\ airportMapRef = AirportMapEffect(<<>>, dataFiles.airports)
    /\ selectedAirport = Null
    /\ filters = EmptyFilters
    /\ filterObjects = FreshFilterObjects
    /\ filtersRef = 0
    /\ routesToShow = <<>>
    /\ routesLayer = <<>>
    /\ renderError = FALSE
    /\ NoArcCall

\* a render with another airports prop: the effect of lines 35-40 runs,
\* the route-drawing effect does not (airports is not among the
\* dependencies of line 248)
ReplaceAirports(aps) ==
    /\ ~loading
    /\ ~renderError
    /\ aps # airports
    /\ airports' = aps
    /\ airportMapRef' = AirportMapEffect(airportMapRef, aps)
    /\ UNCHANGED <<airlines, routes, routesByAirport, aircraftTypes, fpSign,
                   uiVars, backVars>>

NextMap ==
    \/ \E aps \in AirportLists : ReplaceAirports(aps)
    \/ \E i \in 1..Len(airports) : SelectAirport(airports[i])
    \/ DeselectAirport

SpecMap == InitMap /\ [][NextMap]_vars

-----------------------------------------------------------------------------
(* Vocabulary of the properties *)

Abs(x) == IF x < 0 THEN -x ELSE x

\* the airline criterion of the route filter
AirlineCriterion(route, f) ==
    \/ Elems(f.airlines) = {}
    \/ Elems(route.operators) \cap Elems(f.airlines) # {}
    \/ /\ f.includeCodeshares
       /\ Elems(route.codeshares) \cap Elems(f.airlines) # {}

\* the aircraft criterion of the route filter
AircraftCriterion(route, f) ==
    \/ Elems(f.aircraft) = {}
    \/ Elems(route.aircraft) \cap Elems(f.aircraft) # {}

PassesFilter(route, f) ==
    AirlineCriterion(route, f) /\ AircraftCriterion(route, f)

\* sub is full restricted to its elements in keep, in the order of full
IsRestriction(sub, full, keep) ==
    LET kept == { i \in 1..Len(full) : full[i] \in keep }
    IN /\ Len(sub) = Cardinality(kept)
       /\ \A i \in kept :
            sub[Cardinality({ j \in kept : j <= i })] = full[i]

\* the index bucket of the selected airport
HasBucket == selectedAirport.iata \in DOMAIN routesByAirport
Bucket == routesByAirport[selectedAirport.iata]

\* the routes the current view selects from
ViewedRoutes == IF selectedAirport # Null
                THEN (IF HasBucket THEN Bucket ELSE <<>>)
                ELSE routes

\* the selected airlines reach the route only as codeshare partners
CodeshareOnlyMatch(route, f) ==
    /\ Elems(f.airlines) # {}
    /\ Elems(route.operators) \cap Elems(f.airlines) = {}
    /\ Elems(route.codeshares) \cap Elems(f.airlines) # {}

CrossesAntimeridian(start, end) == Abs(end[2] - start[2]) > HalfTurn

-----------------------------------------------------------------------------
(* Properties *)

\* C1: in every path getArcPoints returns, the longitudes of two
\* consecutive points differ by at most 180 degrees.
C1_ConsecutiveLongitudes ==
    \A i \in 2..Len(arcPoints) :
        Abs(arcPoints[i][2] - arcPoints[i - 1][2]) <= HalfTurn

\* a returned path that left the range [-180, 180] after at least two
\* samples beyond the antimeridian
C1_Witness ==
    /\ Len(arcPoints) >= 4
    /\ \E i \in 2..Len(arcPoints) :
          /\ Abs(arcPoints[i][2]) > HalfTurn
          /\ Abs(arcPoints[i - 1][2]) > HalfTurn

\* C2 as stated: the first point of the returned path is the start
\* coordinate and the last point is the end coordinate, also for a path
\* that crosses the antimeridian.
C2_EndpointsAsStated ==
    arcPoints # <<>> =>
        /\ arcPoints[1] = arcStart
        /\ arcPoints[Len(arcPoints)] = arcEnd

\* C2 amended: the first point is the start coordinate; the last point
\* has the latitude of the end coordinate, and its longitude is that of
\* the end coordinate when the end is less than 180 degrees of longitude
\* away from the start, that longitude plus 360 when the end lies more
\* than 180 degrees west of the start, and minus 360 when it lies more
\* than 180 degrees east.
C2_EndpointsUnwrapped ==
    (arcPoints # <<>> /\ Abs(arcEnd[2] - arcStart[2]) # HalfTurn) =>
        LET last == arcPoints[Len(arcPoints)]
            delta == arcEnd[2] - arcStart[2]
        IN /\ arcPoints[1] = arcStart
           /\ last[1] = arcEnd[1]
           /\ last[2] = arcEnd[2]
                          + (IF delta < -HalfTurn THEN FullTurn
                             ELSE IF delta > HalfTurn THEN -FullTurn
                             ELSE 0)

\* a returned path whose end lies across the antimeridian
C2_Witness ==
    /\ arcPoints # <<>>
    /\ CrossesAntimeridian(arcStart, arcEnd)
    /\ arcPoints[Len(arcPoints)] # arcEnd

\* C3: with no airport selected and airlines selected, the resolved list
\* holds exactly the routes of the collection that pass the airline
\* criterion and the aircraft criterion.
C3_NetworkViewFiltered ==
    (selectedAirport = Null /\ Len(filters.airlines) > 0) =>
        IsRestriction(routesToShow, routes,
                      { route \in Elems(routes) :
                          PassesFilter(route, filters) })

\* C4: drawing never throws, and every drawn route has a colour airline,
\* the sentinel when the route has no operator.
C4_ColourAlwaysDefined ==
    /\ ~renderError
    /\ \A i \in 1..Len(routesLayer) :
          /\ routesLayer[i].colorAirline # Undefined
          /\ \A j \in 1..Len(routes) :
                ( /\ routes[j].origin = routesLayer[i].origin
                  /\ routes[j].destination = routesLayer[i].destination
                  /\ Len(routes[j].operators) = 0 )
                => routesLayer[i].colorAirline = FallbackAirline

\* C5: with an airport selected, the resolved list is the index bucket of
\* that airport restricted to the routes passing the filter, in bucket
\* order; without a bucket it is empty and nothing is thrown.
C5_AirportViewIsFilteredBucket ==
    selectedAirport # Null =>
        IF HasBucket
        THEN IsRestriction(routesToShow, Bucket,
                           { route \in Elems(Bucket) :
                               PassesFilter(route, filters) })
        ELSE routesToShow = <<>> /\ routesLayer = <<>> /\ ~renderError

\* an airport with two routes in its bucket, one of them filtered out
C5_Witness ==
    /\ selectedAirport # Null
    /\ HasBucket
    /\ Len(Bucket) = 2
    /\ Len(routesToShow) = 1
    /\ routesToShow[1] = Bucket[2]

\* C6: with no airport and no airline selected nothing is resolved and
\* nothing is drawn, whatever the aircraft selection and the codeshare
\* flag.
C6_NothingWithoutSelection ==
    (selectedAirport = Null /\ Len(filters.airlines) = 0) =>
        routesToShow = <<>> /\ routesLayer = <<>>

\* no selection, aircraft selected and codeshares included, routes loaded
C6_Witness ==
    /\ selectedAirport = Null
    /\ Len(filters.airlines) = 0
    /\ Len(filters.aircraft) > 0
    /\ filters.includeCodeshares
    /\ Len(routes) > 0

\* C7: a route passes the filter of the airport view exactly when the
\* airline criterion and the aircraft criterion both hold, and the
\* resolved list holds exactly those routes of the bucket.
C7_FilterIsConjunction ==
    /\ \A i \in 1..Len(routes) :
          AirportRouteFilter(routes[i], filters)
              <=> PassesFilter(routes[i], filters)
    /\ (selectedAirport # Null /\ HasBucket) =>
          \A i \in 1..Len(Bucket) :
              Includes(routesToShow, Bucket[i])
                  <=> PassesFilter(Bucket[i], filters)

\* both selections non-empty; one bucket route fails only the aircraft
\* criterion and is left out, another passes both and is kept
C7_Witness ==
    /\ selectedAirport # Null
    /\ HasBucket
    /\ Len(filters.airlines) > 0
    /\ Len(filters.aircraft) > 0
    /\ \E i \in 1..Len(Bucket) :
          /\ AirlineCriterion(Bucket[i], filters)
          /\ ~AircraftCriterion(Bucket[i], filters)
          /\ ~Includes(routesToShow, Bucket[i])
    /\ \E i \in 1..Len(Bucket) :
          /\ PassesFilter(Bucket[i], filters)
          /\ Includes(routesToShow, Bucket[i])

\* C8: under the filter state with nothing selected every route passes,
\* and the resolved list of a selected airport is its whole bucket.
C8_EmptyFilterKeepsBucket ==
    /\ \A i \in 1..Len(routes) : AirportRouteFilter(routes[i], EmptyFilters)
    /\ (selectedAirport # Null /\ filters = EmptyFilters) =>
          routesToShow = (IF HasBucket THEN Bucket ELSE <<>>)

\* an airport with a bucket of two routes shown under the empty filter
C8_Witness ==
    /\ selectedAirport # Null
    /\ filters = EmptyFilters
    /\ Len(routesToShow) = 2

\* C9: with airlines selected and no aircraft selected, a route that the
\* selected airlines reach only as codeshare partners is resolved exactly
\* when includeCodeshares is set.
C9_CodeshareNeedsFlag ==
    Len(filters.aircraft) = 0 =>
        \A i \in 1..Len(ViewedRoutes) :
            CodeshareOnlyMatch(ViewedRoutes[i], filters) =>
                (Includes(routesToShow, ViewedRoutes[i])
                    <=> filters.includeCodeshares)

\* a codeshare-only match that is resolved with the flag set
C9_Witness ==
    /\ Len(filters.aircraft) = 0
    /\ filters.includeCodeshares
    /\ \E i \in 1..Len(ViewedRoutes) :
          /\ CodeshareOnlyMatch(ViewedRoutes[i], filters)
          /\ Includes(routesToShow, ViewedRoutes[i])

\* C10: setting includeCodeshares, all else equal, removes no route from
\* the resolved list, and a route with a selected operator passes the
\* airline criterion with the flag set and with it clear.
C10_CodesharesOnlyAdd ==
    /\ [](\A i \in 1..Len(routes) :
            Elems(routes[i].operators) \cap Elems(filters.airlines) # {} =>
                /\ routeMatchesAirline(routes[i], filters.airlines, TRUE)
                /\ routeMatchesAirline(routes[i], filters.airlines, FALSE))
    /\ [][ ( /\ ~filters.includeCodeshares
             /\ filters' = [filters EXCEPT !.includeCodeshares = TRUE]
             /\ selectedAirport' = selectedAirport )
           => \A i \in 1..Len(routesToShow) :
                  Includes(routesToShow', routesToShow[i]) ]_vars

\* the flag is set and the resolved list holds an operator match next to
\* a codeshare-only match
C10_Witness ==
    /\ filters.includeCodeshares
    /\ \E i \in 1..Len(routesToShow) :
          Elems(routesToShow[i].operators) \cap Elems(filters.airlines) # {}
    /\ \E i \in 1..Len(routesToShow) :
          CodeshareOnlyMatch(routesToShow[i], filters)

\* the route's two endpoints are airports of the loaded collection
Resolves(route) ==
    /\ \E i \in 1..Len(airports) : airports[i].iata = route.origin
    /\ \E i \in 1..Len(airports) : airports[i].iata = route.destination

RoutesToDraw ==
    LET resolved == ResolveRoutes(selectedAirport, filters, routes,
                                  routesByAirport)
    IN Filter(resolved, { r \in Elems(resolved) : Resolves(r) })

\* C12: after any sequence of selections, deselections and filter changes
\* the routes on the map are those of the current selection and filter
\* alone, route for route: nothing of an earlier state is left over and
\* nothing of the current state is missing
C12_LayerIsCurrentResolution ==
    /\ Len(routesLayer) = Len(RoutesToDraw)
    /\ \A i \in 1..Len(routesLayer) :
          /\ i <= Len(RoutesToDraw)
          /\ routesLayer[i].origin = RoutesToDraw[i].origin
          /\ routesLayer[i].destination = RoutesToDraw[i].destination

\* C13: once the data has loaded, the airports, airlines, routes and route
\* index the page holds are the loaded ones, in content and in order,
\* whatever has been selected or filtered since
C13_DatasetAsLoaded ==
    ~loading /\ airports # <<>> =>
        /\ airports = dataFiles.airports
        /\ airlines = dataFiles.airlines
        /\ routes = dataFiles.routes
        /\ routesByAirport = dataFiles.routesByAirport

\* C14: the filter state starts with no airline, no aircraft type and
\* codeshares off; it is always the content of the object it refers to; a
\* filter action makes it refer to a new object and no step changes the
\* object it referred to before the step
C14_FiltersReplacedNotMutated ==
    /\ filters = EmptyFilters
    /\ [](filters = filterObjects[filtersRef])
    /\ [][ /\ filterObjects'[filtersRef] = filterObjects[filtersRef]
           /\ filters' # filters => filtersRef' # filtersRef ]_vars

\* two airlines ticked one after the other: the object before the second
\* tick still holds one airline
C14_Witness ==
    /\ Len(filters.airlines) = 2
    /\ filterObjects[1 - filtersRef] # Null
    /\ Len(filterObjects[1 - filtersRef].airlines) = 1
    /\ filters = filterObjects[filtersRef]

\* C15: in the files process-data.js writes, every route of routes.json
\* has a bucket under its origin, and the bucket of a code is the routes
\* of that origin, each once, in the order routes.json has them; so no
\* route is in a bucket of another code
C15_IndexBucketsByOrigin ==
    lastScript = "process-data" =>
        /\ \A i \in 1..Len(dataFiles.routes) :
              dataFiles.routes[i].origin \in DOMAIN dataFiles.routesByAirport
        /\ \A code \in DOMAIN dataFiles.routesByAirport :
              IsRestriction(dataFiles.routesByAirport[code],
                            dataFiles.routes,
                            { r \in Elems(dataFiles.routes) :
                                r.origin = code })

\* two routes of one origin written by process-data.js
C15_Witness ==
    /\ lastScript = "process-data"
    /\ \E code \in DOMAIN dataFiles.routesByAirport :
          Len(dataFiles.routesByAirport[code]) = 2

\* C16: in routes.json as either script writes it, no two routes have the
\* same origin and the same destination
C16_PairsUnique ==
    \A i, j \in 1..Len(dataFiles.routes) :
        ( /\ dataFiles.routes[i].origin = dataFiles.routes[j].origin
          /\ dataFiles.routes[i].destination =
                dataFiles.routes[j].destination ) => i = j

\* update-routes.js has merged a scraped route into the existing route of
\* its key and kept an existing route of another key
C16_Witness ==
    /\ lastScript = "update-routes"
    /\ Len(dataFiles.routes) >= 2
    /\ \E i \in 1..Len(dataFiles.routes) :
          /\ dataFiles.routes[i].origin = "NBO"
          /\ dataFiles.routes[i].operators = <<"DL", "BA">>
          /\ dataFiles.routes[i].aircraft # <<>>

\* the airport codes of airports.json
FileAirportCodes ==
    { dataFiles.airports[i].iata : i \in 1..Len(dataFiles.airports) }

\* C17: in routes.json as either script writes it, the origin and the
\* destination of every route are codes of airports of airports.json
C17_EndpointsResolve ==
    \A i \in 1..Len(dataFiles.routes) :
        /\ dataFiles.routes[i].origin \in FileAirportCodes
        /\ dataFiles.routes[i].destination \in FileAirportCodes

\* the points of the interpolation loop, before the longitudes are unwrapped
RawArcPoints == InterpolatePoints(arcStart, arcEnd, arcSteps, fpSign)

\* C18: getArcPoints returns numPoints + 1 points, whether its endpoints
\* are distinct or the same; unwrapping keeps the number and the order of
\* the points and every latitude, and moves a longitude by whole turns only
C18_PointCountAndLatitudes ==
    arcPoints # <<>> =>
        /\ Len(arcPoints) = arcSteps + 1
        /\ Len(RawArcPoints) = arcSteps + 1
        /\ \A i \in 1..Len(arcPoints) :
              /\ i <= Len(RawArcPoints)
              /\ arcPoints[i][1] = RawArcPoints[i][1]
              /\ (arcPoints[i][2] - RawArcPoints[i][2]) % FullTurn = 0

\* a path of more than two points across the antimeridian, with a
\* longitude the unwrapping has moved
C18_Witness ==
    /\ arcPoints # <<>>
    /\ arcSteps >= 2
    /\ Len(arcPoints) = arcSteps + 1
    /\ CrossesAntimeridian(arcStart, arcEnd)
    /\ \E i \in 1..Len(arcPoints) : arcPoints[i][2] # RawArcPoints[i][2]

\* C19: with start and end the same point, getArcPoints returns that
\* point numPoints + 1 times, and the unwrapping changes none of them
C19_CoincidentEndpoints ==
    (arcPoints # <<>> /\ arcStart = arcEnd) =>
        /\ arcPoints = [i \in 1..(arcSteps + 1) |-> arcStart]
        /\ arcPoints = RawArcPoints

\* a call with coincident endpoints off the diagonal, several steps
C19_Witness ==
    /\ arcPoints # <<>>
    /\ arcStart = arcEnd
    /\ arcStart[1] # arcStart[2]
    /\ arcSteps >= 2
    /\ Len(arcPoints) = arcSteps + 1

\* C20: a drawn route with at least one operator is coloured by the first
\* of its operators that is among the selected airlines, and by its first
\* operator when no airline is selected or none of its operators is
C20_ColourAirlineChoice ==
    \A i \in 1..Len(routesLayer) :
      \A j \in 1..Len(routesToShow) :
        ( /\ routesToShow[j].origin = routesLayer[i].origin
          /\ routesToShow[j].destination = routesLayer[i].destination
          /\ Len(routesToShow[j].operators) > 0 )
        => LET ops == routesToShow[j].operators
               selected == { k \in 1..Len(ops) :
                               Includes(filters.airlines, ops[k]) }
           IN IF selected # {}
              THEN \E k \in selected :
                      /\ \A m \in selected : k <= m
                      /\ routesLayer[i].colorAirline = ops[k]
              ELSE routesLayer[i].colorAirline = ops[1]

\* a drawn route coloured by its second operator, the only one selected
C20_Witness ==
    \E i \in 1..Len(routesLayer) :
      \E j \in 1..Len(routesToShow) :
        /\ routesToShow[j].origin = routesLayer[i].origin
        /\ routesToShow[j].destination = routesLayer[i].destination
        /\ Len(routesToShow[j].operators) >= 2
        /\ ~Includes(filters.airlines, routesToShow[j].operators[1])
        /\ Includes(filters.airlines, routesToShow[j].operators[2])
        /\ routesLayer[i].colorAirline = routesToShow[j].operators[2]

\* C21: the hue of a drawn route is a whole number of degrees in
\* [0, 360) that differs from c0 * 137 + c1 * 59 by whole turns, c0 and c1
\* being the code units of the two characters of its colour airline; so
\* two routes drawn with the same airline have the same hue
C21_HueOfIdentifier ==
    /\ \A i \in 1..Len(routesLayer) :
          LET units == CodeUnits[routesLayer[i].colorAirline]
              sum == units[1] * HueWeight0 + units[2] * HueWeight1
          IN /\ Len(units) = 2
             /\ routesLayer[i].hue \in 0..(FullTurn - 1)
             /\ \E turns \in 0..(sum \div FullTurn) :
                   sum = turns * FullTurn + routesLayer[i].hue
    /\ \A i, j \in 1..Len(routesLayer) :
          routesLayer[i].colorAirline = routesLayer[j].colorAirline
              => routesLayer[i].hue = routesLayer[j].hue

\* two routes drawn in one pass with the same colour airline
C21_Witness ==
    /\ Len(routesLayer) = 2
    /\ routesLayer[1].colorAirline = routesLayer[2].colorAirline
    /\ routesLayer[1].hue = routesLayer[2].hue
    /\ routesLayer[1].hue # 0

\* C22: a Reset step, from whatever state it is taken, ends with no
\* airport selected, the filter {airlines: [], aircraft: [],
\* includeCodeshares: false}, an empty resolved list and an empty map layer
C22_ResetClearsAll ==
    [][ handleReset =>
          /\ selectedAirport' = Null
          /\ filters' = EmptyFilters
          /\ routesToShow' = <<>>
          /\ routesLayer' = <<>>
          /\ ~renderError' ]_vars

\* Reset can be pressed with an airport selected, an airline, an aircraft
\* type and codeshares ticked and routes on the map
C22_Witness ==
    /\ ~loading
    /\ ~renderError
    /\ selectedAirport # Null
    /\ Len(filters.airlines) > 0
    /\ Len(filters.aircraft) > 0
    /\ filters.includeCodeshares
    /\ Len(routesLayer) > 0
    /\ ENABLED handleReset

\* no value occurs at two positions of the array
NoDuplicates(arr) ==
    \A i, j \in 1..Len(arr) : arr[i] = arr[j] => i = j

\* C23: in routes.json as either script writes it, no route names an
\* airline twice among its operators or twice among its codeshares
C23_AirlineListsDistinct ==
    \A i \in 1..Len(dataFiles.routes) :
        /\ NoDuplicates(dataFiles.routes[i].operators)
        /\ NoDuplicates(dataFiles.routes[i].codeshares)

\* update-routes.js has merged scraped operators into a route that
\* routes.dat gave an operator
C23_Witness ==
    /\ lastScript = "update-routes"
    /\ \E i \in 1..Len(dataFiles.routes) :
          /\ dataFiles.routes[i].origin = "NBO"
          /\ dataFiles.routes[i].destination = "TRW"
          /\ dataFiles.routes[i].operators = <<"DL", "BA">>
    /\ \E i \in 1..Len(dataFiles.airlines) :
          /\ dataFiles.airlines[i].iata = "BA"
          /\ dataFiles.airlines[i].active

\* C24: the tooltip of a drawn route names its first three operators at
\* most, in list order, an operator missing from the airline list by its
\* code, and carries a count exactly when the route has more than three
\* operators: the number of operators beyond the third
C24_TooltipOperators ==
    \A i \in 1..Len(routesLayer) :
        \E r \in 1..Len(routesToShow) :
            LET ops == routesToShow[r].operators
                label == routesLayer[i]
            IN /\ routesToShow[r].origin = label.origin
               /\ routesToShow[r].destination = label.destination
               /\ Len(label.operatorNames) <= 3
               /\ \/ Len(label.operatorNames) = Len(ops)
                  \/ Len(ops) > 3 /\ Len(label.operatorNames) = 3
               /\ \A k \in 1..Len(label.operatorNames) :
                     \/ \E a \in 1..Len(airlines) :
                           /\ airlines[a].iata = ops[k]
                           /\ airlines[a].name = label.operatorNames[k]
                     \/ /\ \A a \in 1..Len(airlines) :
                              airlines[a].iata # ops[k]
                        /\ label.operatorNames[k] = ops[k]
               /\ (label.moreOperators # <<>>) <=> (Len(ops) > 3)
               /\ Len(ops) > 3 => label.moreOperators = <<Len(ops) - 3>>

\* a route of four operators is drawn, its second operator unknown to the
\* airline list
C24_Witness ==
    /\ Len(routesLayer) = 1
    /\ Len(routesToShow) = 1
    /\ routesToShow[1].operators = <<"DL", "XX", "AA", "BA">>
    /\ routesLayer[1].operatorNames =
          <<"Delta Air Lines", "XX", "American Airlines">>
    /\ routesLayer[1].moreOperators = <<1>>

\* the routes of the loaded index under one airport code
LoadedBucket(code) ==
    IF code \in DOMAIN routesByAirport
    THEN Elems(routesByAirport[code]) ELSE {}

\* C25: once the page has loaded the files the scripts wrote, the index
\* holds under every airport code exactly the loaded routes of that
\* origin
C25_LoadedIndexMatchesRoutes ==
    ~loading =>
        \A code \in DOMAIN routesByAirport
                        \cup { r.origin : r \in Elems(routes) } :
            LoadedBucket(code) = { r \in Elems(routes) : r.origin = code }

\* a step of update-routes.js
UpdateRoutesStep ==
    /\ lastScript' = "update-routes"
    /\ scriptRuns' = scriptRuns + 1

\* C26: a run of update-routes.js saves every route it found with an
\* operator, under the same pair, with every operator the route had and
\* with its codeshares and aircraft as they were; and it saves no route
\* without an operator
C26_MergeKeepsExisting ==
    [][ UpdateRoutesStep =>
          /\ \A i \in 1..Len(dataFiles.routes) :
                Len(dataFiles.routes[i].operators) > 0 =>
                    \E j \in 1..Len(dataFiles'.routes) :
                        LET old == dataFiles.routes[i]
                            new == dataFiles'.routes[j]
                        IN /\ new.origin = old.origin
                           /\ new.destination = old.destination
                           /\ Elems(old.operators) \subseteq
                                 Elems(new.operators)
                           /\ new.codeshares = old.codeshares
                           /\ new.aircraft = old.aircraft
          /\ \A j \in 1..Len(dataFiles'.routes) :
                Len(dataFiles'.routes[j].operators) > 0 ]_vars

\* after a run, a route that routes.dat gave aircraft has an operator
\* more, beside a route kept with its codeshare
C26_Witness ==
    /\ lastScript = "update-routes"
    /\ \E i, j \in 1..Len(dataFiles.routes) :
          /\ dataFiles.routes[i].origin = "NBO"
          /\ Len(dataFiles.routes[i].operators) = 2
          /\ Len(dataFiles.routes[i].aircraft) = 2
          /\ dataFiles.routes[j].origin = "TRW"
          /\ Len(dataFiles.routes[j].operators) > 0

\* C27: with an airport selected the sidebar's currentRoutes is the list
\* the map resolved; with no airport and some airline ticked the route
\* count of the airline-network panel is the length of that list
C27_SidebarAgreesWithMap ==
    /\ selectedAirport # Null => currentRoutes = routesToShow
    /\ (selectedAirport = Null /\ Len(filters.airlines) > 0) =>
          networkRoutesCount = Len(routesToShow)

\* an airport is selected and its routes are narrowed by an airline and
\* an aircraft type
C27_Witness ==
    /\ ~renderError
    /\ selectedAirport # Null
    /\ Len(filters.airlines) > 0
    /\ Len(filters.aircraft) > 0
    /\ HasBucket
    /\ 0 < Len(routesToShow)
    /\ Len(routesToShow) < Len(Bucket)

\* the five datasets of the page are those of the files
AllDatasetsSet ==
    /\ airports = dataFiles.airports
    /\ Len(airlines) = Len(dataFiles.airlines)
    /\ Elems(airlines) = Elems(dataFiles.airlines)
    /\ routes = dataFiles.routes
    /\ routesByAirport = dataFiles.routesByAirport
    /\ aircraftTypes = dataFiles.aircraftTypes

\* the five datasets of the page are as useState made them
NoDatasetSet ==
    /\ airports = <<>>
    /\ airlines = <<>>
    /\ routes = <<>>
    /\ routesByAirport = <<>>
    /\ aircraftTypes = <<>>

\* C28: loading becomes false and stays false; the step that ends it
\* either sets all five datasets or none; and while none is set no
\* airport is selected
C28_LoadAllOrNothing ==
    /\ <>[](~loading)
    /\ [][ (loading /\ ~loading') =>
              (AllDatasetsSet' \/ NoDatasetSet') ]_vars
    /\ [](loading => NoDatasetSet)
    /\ [](~loading => (AllDatasetsSet \/ NoDatasetSet))
    /\ [](NoDatasetSet => selectedAirport = Null)

\* loading has ended on a failure: the files have airports, the page none
C28_Witness ==
    /\ ~loading
    /\ dataFiles.airports # <<>>
    /\ NoDatasetSet

\* the list the map resolves once the handler has toggled code again in
\* the state a step leads to
AirlineToggledAgain(code) ==
    ResolveRoutes(selectedAirport',
                  [filters' EXCEPT !.airlines = Toggled(@, code)],
                  routes', routesByAirport')
AircraftToggledAgain(type) ==
    ResolveRoutes(selectedAirport',
                  [filters' EXCEPT !.aircraft = Toggled(@, type)],
                  routes', routesByAirport')

\* C29: the selected airlines and the selected aircraft types never hold
\* a value twice; and after a toggle of a code that leaves the page
\* running, the same toggle again selects the codes that were selected
\* before the first and resolves the routes that were resolved then
C29_TogglesAreInvolutions ==
    /\ [](NoDuplicates(filters.airlines) /\ NoDuplicates(filters.aircraft))
    /\ [][ \A code \in DOMAIN CodeUnits :
              (toggleAirline(code) /\ ~renderError') =>
                  /\ Elems(Toggled(filters'.airlines, code)) =
                        Elems(filters.airlines)
                  /\ AirlineToggledAgain(code) = routesToShow ]_vars
    /\ [][ \A type \in Elems(AircraftTypeList) :
              (toggleAircraft(type) /\ ~renderError') =>
                  /\ Elems(Toggled(filters'.aircraft, type)) =
                        Elems(filters.aircraft)
                  /\ AircraftToggledAgain(type) = routesToShow ]_vars

\* an airline was unticked and ticked again behind another: both are
\* selected, in the order of the last ticks, with two aircraft types, and
\* routes are resolved
C29_Witness ==
    /\ ~renderError
    /\ filters.airlines = <<"BA", "AA">>
    /\ Len(filters.aircraft) = 2
    /\ Len(routesToShow) > 0

\* a dependency of the route-drawing effect changes in the step
DrawingEffectRuns ==
    \/ selectedAirport' # selectedAirport
    \/ routesByAirport' # routesByAirport
    \/ routes' # routes
    \/ filters' # filters

\* the layer a drawing pass leaves in the state the step leads to
LayerRedrawn ==
    DrawRoutes(<<>>,
               ResolveRoutes(selectedAirport', filters', routes',
                             routesByAirport'),
               filters', airportMapRef', fpSign').layer

====
